---- MODULE Spec2Model ----
(***************************************************************************)
(* Model of src/html/parser.rs of hyperlink: the URL scheme screen, the    *)
(* srcset splitter, the parser scratch buffers and the HyperlinkEmitter,   *)
(* the sink of the html5gum tokenizer's push callbacks.                    *)
(*                                                                         *)
(* Byte strings are sequences of one-character strings, so that pushing,   *)
(* trimming, splitting and the scheme scan work on bytes as the code does. *)
(* An Option is a sequence of length 0 (None) or 1 (Some).                 *)
(***************************************************************************)
EXTENDS Integers, Sequences, FiniteSets, TLC

VARIABLES
    \* ParserBuffers (parser.rs 56-61)
    current_tag_name,
    current_attribute_name,
    current_attribute_value,
    last_start_tag,
    \* HyperlinkEmitter (parser.rs 72-83)
    paragraph_walker,
    link_buf,
    in_paragraph,
    last_paragraph_i,
    get_paragraphs,
    current_tag_is_closing,
    check_anchors,
    \* the tokenizer's position in the tag it is delivering
    pc,
    \* argument and result of a direct call of is_bad_schema
    url,
    ret,
    \* history: for each link_buf entry, whether in_paragraph held at the push
    pushed_in_paragraph,
    \* history: link_buf.len() at the first opening paragraph-class tag emitted
    \* since the last closing one (-1 when there was none)
    range_start,
    \* history: link_buf.len() at the last paragraph-class tag emitted, when
    \* that was an opening tag (-1 when it was a closing tag, or none)
    open_at,
    \* history: a paragraph-class start tag was emitted without set_self_closing
    plain_open_seen,
    \* history: a flush has called extract_anchor_def
    anchor_def_called,
    \* history: the name and the value the tokenizer has pushed for the
    \* attribute it is delivering, empty when it is delivering none
    delivered,
    \* history: the name of the start tag emitted last, or the value given to
    \* set_last_start_tag last, whichever came later
    started,
    \* history: the tokenizer positions at which a document was abandoned and
    \* the buffers were reset for the next one
    resets

buffers == <<current_tag_name, current_attribute_name, current_attribute_value,
             last_start_tag>>
emitter == <<paragraph_walker, link_buf, in_paragraph, last_paragraph_i,
             get_paragraphs, current_tag_is_closing, check_anchors>>
paragraph_history == <<pushed_in_paragraph, range_start, open_at,
                       plain_open_seen, anchor_def_called>>
history == <<paragraph_history, delivered, started, resets>>
vars == <<buffers, emitter, pc, url, ret, history>>

----------------------------------------------------------------------------
(* Bounds *)

\* link_buf holds at most MaxLinks records
MaxLinks == 2
\* the paragraph walker is fed at most MaxText bytes per paragraph
MaxText == 1
\* is_bad_schema is called on inputs of at most MaxUrlLen bytes
MaxUrlLen == 4
\* attribute values classified byte by byte have at most MaxValLen bytes
MaxValLen == 3
\* the buffers are reset for a next document at most MaxResets times
MaxResets == 1

----------------------------------------------------------------------------
(* Byte strings *)

None == <<>>
Some(x) == <<x>>

Lower == {"a","b","c","d","e","f","g","h","i","j","k","l","m",
          "n","o","p","q","r","s","t","u","v","w","x","y","z"}
Upper == {"A","B","C","D","E","F","G","H","I","J","K","L","M",
          "N","O","P","Q","R","S","T","U","V","W","X","Y","Z"}
Digit == {"0","1","2","3","4","5","6","7","8","9"}

\* char::is_whitespace on the bytes the model feeds
IsWhitespace(c) == c \in {" ", "\t", "\n", "\r"}

BoundedSeqs(S, n) == UNION {[1..k -> S] : k \in 0..n}

starts_with(s, prefix) ==
    /\ Len(s) >= Len(prefix)
    /\ SubSeq(s, 1, Len(prefix)) = prefix

\* str::trim_start / str::trim_end / str::trim
RECURSIVE trim_start(_)
trim_start(s) ==
    IF s # <<>> /\ IsWhitespace(Head(s)) THEN trim_start(Tail(s)) ELSE s

RECURSIVE trim_end(_)
trim_end(s) ==
    IF s # <<>> /\ IsWhitespace(s[Len(s)])
    THEN trim_end(SubSeq(s, 1, Len(s) - 1))
    ELSE s

\* str::split(sep): the segments between separators, empty ones included
RECURSIVE split(_, _)
split(s, sep) ==
    IF \E i \in 1..Len(s) : s[i] = sep
    THEN LET i == CHOOSE j \in 1..Len(s) :
                    s[j] = sep /\ \A k \in 1..(j - 1) : s[k] # sep
         IN  <<SubSeq(s, 1, i - 1)>> \o split(SubSeq(s, i + 1, Len(s)), sep)
    ELSE <<s>>

\* the longest prefix without whitespace
RECURSIVE take_word(_)
take_word(s) ==
    IF s = <<>> \/ IsWhitespace(Head(s)) THEN <<>>
    ELSE <<Head(s)>> \o take_word(Tail(s))

\* str::split_whitespace().next(): the first whitespace-delimited token
split_whitespace_next(s) ==
    LET t == trim_start(s)
    IN  IF t = <<>> THEN None ELSE Some(take_word(t))

----------------------------------------------------------------------------
(* Free functions of parser.rs *)

is_paragraph_tag(tag) ==
    \/ tag = <<"p">>
    \/ tag = <<"l","i">>
    \/ tag = <<"d","t">>
    \/ tag = <<"d","d">>

try_normalize_href_value(input) == trim_end(trim_start(input))

\* the loop over url[1..]: i is the 1-based position of the next byte
RECURSIVE scan_scheme(_, _)
scan_scheme(u, i) ==
    IF i > Len(u) THEN FALSE
    ELSE IF u[i] \in Lower \cup Upper \cup Digit \cup {"+", "-", "."}
         THEN scan_scheme(u, i + 1)
         ELSE u[i] = ":"

\* is_bad_schema without the test of the first byte
is_bad_schema_any_first(u) ==
    IF u = <<>> THEN FALSE
    ELSE IF starts_with(u, <<"/","/">>) THEN TRUE
    ELSE scan_scheme(u, 2)

is_bad_schema(u) ==
    IF u = <<>> THEN FALSE
    ELSE IF starts_with(u, <<"/","/">>) THEN TRUE
    ELSE IF u[1] \notin Lower \cup Upper THEN FALSE
    ELSE scan_scheme(u, 2)

----------------------------------------------------------------------------
(* Collaborators outside parser.rs *)

\* Document: the path of the document being parsed
document == [path |-> "doc"]

\* Document::join: the href, with its #fragment kept only under check_anchors
join(anchors, value) ==
    IF anchors THEN value ELSE split(value, "#")[1]

\* ParagraphWalker: the character data fed since the last finish_paragraph
walker_new == <<>>
walker_update(w, c) == w \o c
\* finish_paragraph: the fingerprint of the data fed, and the walker reset
finish_paragraph(w) ==
    [paragraph |-> IF w = <<>> THEN None ELSE Some(w), walker |-> walker_new]

----------------------------------------------------------------------------
(* Link records *)

UsedLink(href) ==
    [kind |-> "Uses", href |-> href, path |-> document.path, paragraph |-> None]

DefinedLink(href) == [kind |-> "Defines", href |-> href]

----------------------------------------------------------------------------
(* HyperlinkEmitter: the helpers that push records.  Each takes link_buf    *)
(* as it stands and yields link_buf as the helper leaves it.                *)

\* extract_used_link on the value as pushed, not trimmed
extract_used_link_untrimmed(buf) ==
    LET value == current_attribute_value
    IN  IF is_bad_schema(value)
        THEN buf
        ELSE Append(buf, UsedLink(join(check_anchors, value)))

extract_used_link(buf) ==
    LET value == try_normalize_href_value(current_attribute_value)
    IN  IF is_bad_schema(value)
        THEN buf
        ELSE Append(buf, UsedLink(join(check_anchors, value)))

\* the loop taking each candidate whole as its URL, descriptor included
RECURSIVE push_srcset_whole(_, _)
push_srcset_whole(buf, candidates) ==
    IF candidates = <<>> THEN buf
    ELSE LET first == try_normalize_href_value(Head(candidates))
             rest == Tail(candidates)
         IN  IF first = <<>> \/ is_bad_schema(first)
             THEN push_srcset_whole(buf, rest)
             ELSE push_srcset_whole(
                      Append(buf, UsedLink(join(check_anchors, first))), rest)

\* the for loop of extract_used_link_srcset over the candidates left
RECURSIVE push_srcset_candidates(_, _)
push_srcset_candidates(buf, candidates) ==
    IF candidates = <<>> THEN buf
    ELSE LET first == split_whitespace_next(Head(candidates))
             rest == Tail(candidates)
         IN  IF first = None \/ first[1] = <<>>
             THEN push_srcset_candidates(buf, rest)
             ELSE IF is_bad_schema(first[1])
             THEN push_srcset_candidates(buf, rest)
             ELSE push_srcset_candidates(
                      Append(buf, UsedLink(join(check_anchors, first[1]))), rest)

extract_used_link_srcset(buf) ==
    LET value == try_normalize_href_value(current_attribute_value)
    IN  push_srcset_candidates(buf, split(value, ","))

\* extract_anchor_def without the test of check_anchors
extract_anchor_def_unchecked(buf) ==
    LET value == try_normalize_href_value(current_attribute_value)
        href == <<"#">> \o value
    IN  Append(buf, DefinedLink(join(check_anchors, href)))

extract_anchor_def(buf) ==
    IF check_anchors
    THEN LET value == try_normalize_href_value(current_attribute_value)
             href == <<"#">> \o value
         IN  Append(buf, DefinedLink(join(check_anchors, href)))
    ELSE buf

S_a == <<"a">>
S_area == <<"a","r","e","a">>
S_data == <<"d","a","t","a">>
S_href == <<"h","r","e","f">>
S_id == <<"i","d">>
S_iframe == <<"i","f","r","a","m","e">>
S_img == <<"i","m","g">>
S_link == <<"l","i","n","k">>
S_name == <<"n","a","m","e">>
S_object == <<"o","b","j","e","c","t">>
S_script == <<"s","c","r","i","p","t">>
S_src == <<"s","r","c">>
S_srcset == <<"s","r","c","s","e","t">>

\* flush_arm with the ("a", "name") row left out
flush_arm_no_name_row ==
    LET tag == current_tag_name
        attr == current_attribute_name
    IN  IF tag \in {S_link, S_area, S_a} /\ attr = S_href
            THEN "extract_used_link"
        ELSE IF tag \in {S_img, S_script, S_iframe} /\ attr = S_src
            THEN "extract_used_link"
        ELSE IF tag = S_img /\ attr = S_srcset
            THEN "extract_used_link_srcset"
        ELSE IF tag = S_object /\ attr = S_data
            THEN "extract_used_link"
        ELSE IF attr = S_id
            THEN "extract_anchor_def"
        ELSE "none"

\* the arm the match of flush_old_attribute takes, patterns in source order
flush_arm ==
    LET tag == current_tag_name
        attr == current_attribute_name
    IN  IF tag \in {S_link, S_area, S_a} /\ attr = S_href
            THEN "extract_used_link"
        ELSE IF tag = S_a /\ attr = S_name
            THEN "extract_anchor_def"
        ELSE IF tag \in {S_img, S_script, S_iframe} /\ attr = S_src
            THEN "extract_used_link"
        ELSE IF tag = S_img /\ attr = S_srcset
            THEN "extract_used_link_srcset"
        ELSE IF tag = S_object /\ attr = S_data
            THEN "extract_used_link"
        ELSE IF attr = S_id
            THEN "extract_anchor_def"
        ELSE "none"

\* a flush that classifies the attributes of start tags only
flush_match_start_tags_only(buf) ==
    IF current_tag_is_closing THEN buf
    ELSE CASE flush_arm = "extract_used_link" -> extract_used_link(buf)
           [] flush_arm = "extract_used_link_srcset" ->
                  extract_used_link_srcset(buf)
           [] flush_arm = "extract_anchor_def" -> extract_anchor_def(buf)
           [] OTHER -> buf

\* link_buf after the arm has run
flush_match(buf) ==
    CASE flush_arm = "extract_used_link" -> extract_used_link(buf)
      [] flush_arm = "extract_used_link_srcset" -> extract_used_link_srcset(buf)
      [] flush_arm = "extract_anchor_def" -> extract_anchor_def(buf)
      [] OTHER -> buf

\* a flush that leaves the value of the attribute in its buffer
flush_old_attribute_keeps_value ==
    /\ link_buf' = flush_match(link_buf)
    /\ current_attribute_name' = <<>>
    /\ UNCHANGED current_attribute_value

flush_old_attribute ==
    /\ link_buf' = flush_match(link_buf)
    /\ current_attribute_name' = <<>>
    /\ current_attribute_value' = <<>>

\* an opening paragraph-class tag that leaves last_paragraph_i as it was
open_paragraph_i_kept(buf) == last_paragraph_i

\* an opening paragraph-class tag that takes the index one past the end
open_paragraph_i_past_end(buf) == Len(buf) + 1

\* last_paragraph_i as an opening paragraph-class tag sets it
open_paragraph_i(buf) == Len(buf)

\* a back-patch loop over the whole of link_buf
stamp_whole_buffer(buf, from, paragraph) ==
    [i \in 1..Len(buf) |->
        IF buf[i].kind = "Uses"
        THEN [buf[i] EXCEPT !.paragraph = paragraph]
        ELSE buf[i]]

\* a back-patch loop that starts one record too early
stamp_one_early(buf, from, paragraph) ==
    [i \in 1..Len(buf) |->
        IF i >= from /\ buf[i].kind = "Uses"
        THEN [buf[i] EXCEPT !.paragraph = paragraph]
        ELSE buf[i]]

\* the back-patch loop of emit_current_tag over link_buf[last_paragraph_i..]
stamp(buf, from, paragraph) ==
    [i \in 1..Len(buf) |->
        IF i > from /\ buf[i].kind = "Uses"
        THEN [buf[i] EXCEPT !.paragraph = paragraph]
        ELSE buf[i]]

----------------------------------------------------------------------------
(* ParserBuffers::reset *)

\* a reset that leaves the pending attribute in its two buffers
reset_keeps_attribute ==
    /\ current_tag_name' = <<>>
    /\ last_start_tag' = <<>>
    /\ UNCHANGED <<current_attribute_name, current_attribute_value, emitter>>

reset ==
    /\ current_tag_name' = <<>>
    /\ current_attribute_name' = <<>>
    /\ current_attribute_value' = <<>>
    /\ last_start_tag' = <<>>
    /\ UNCHANGED emitter

----------------------------------------------------------------------------
(* impl Emitter for HyperlinkEmitter: one action per callback *)

set_last_start_tag(opt) ==
    /\ last_start_tag' = (IF opt = None THEN <<>> ELSE opt[1])
    /\ UNCHANGED <<current_tag_name, current_attribute_name,
                   current_attribute_value, emitter>>

\* an emit_string that feeds the walker whenever paragraphs are wanted
emit_string_outside_paragraph(c) ==
    /\ IF get_paragraphs
       THEN paragraph_walker' = walker_update(paragraph_walker, c)
       ELSE UNCHANGED paragraph_walker
    /\ UNCHANGED <<buffers, link_buf, in_paragraph, last_paragraph_i,
                   get_paragraphs, current_tag_is_closing, check_anchors>>

emit_string(c) ==
    /\ IF get_paragraphs /\ in_paragraph
       THEN paragraph_walker' = walker_update(paragraph_walker, c)
       ELSE UNCHANGED paragraph_walker
    /\ UNCHANGED <<buffers, link_buf, in_paragraph, last_paragraph_i,
                   get_paragraphs, current_tag_is_closing, check_anchors>>

init_start_tag ==
    /\ current_tag_name' = <<>>
    /\ current_tag_is_closing' = FALSE
    /\ UNCHANGED <<current_attribute_name, current_attribute_value,
                   last_start_tag, paragraph_walker, link_buf, in_paragraph,
                   last_paragraph_i, get_paragraphs, check_anchors>>

init_end_tag ==
    /\ current_tag_name' = <<>>
    /\ current_tag_is_closing' = TRUE
    /\ UNCHANGED <<current_attribute_name, current_attribute_value,
                   last_start_tag, paragraph_walker, link_buf, in_paragraph,
                   last_paragraph_i, get_paragraphs, check_anchors>>

emit_current_tag ==
    LET flushed == flush_match(link_buf)
        finished == finish_paragraph(paragraph_walker)
    IN  /\ current_attribute_name' = <<>>
        /\ current_attribute_value' = <<>>
        /\ IF ~current_tag_is_closing
           THEN /\ last_start_tag' = current_tag_name
                /\ link_buf' = flushed
                /\ IF is_paragraph_tag(current_tag_name)
                   THEN /\ in_paragraph' = TRUE
                        /\ last_paragraph_i' = open_paragraph_i(flushed)
                        /\ paragraph_walker' = finished.walker
                   ELSE UNCHANGED <<in_paragraph, last_paragraph_i,
                                    paragraph_walker>>
           ELSE IF is_paragraph_tag(current_tag_name)
           THEN /\ paragraph_walker' = finished.walker
                /\ IF in_paragraph
                   THEN /\ link_buf' = stamp(flushed, last_paragraph_i,
                                             finished.paragraph)
                        /\ in_paragraph' = FALSE
                   ELSE /\ link_buf' = flushed
                        /\ UNCHANGED in_paragraph
                /\ last_paragraph_i' = Len(flushed)
                /\ UNCHANGED last_start_tag
           ELSE /\ link_buf' = flushed
                /\ UNCHANGED <<last_start_tag, in_paragraph, last_paragraph_i,
                               paragraph_walker>>
        /\ current_tag_name' = <<>>
        /\ UNCHANGED <<get_paragraphs, current_tag_is_closing, check_anchors>>

set_self_closing ==
    /\ IF is_paragraph_tag(current_tag_name)
       THEN in_paragraph' = FALSE
       ELSE UNCHANGED in_paragraph
    /\ UNCHANGED <<buffers, paragraph_walker, link_buf, last_paragraph_i,
                   get_paragraphs, current_tag_is_closing, check_anchors>>

push_tag_name(s) ==
    /\ current_tag_name' = current_tag_name \o s
    /\ UNCHANGED <<current_attribute_name, current_attribute_value,
                   last_start_tag, emitter>>

init_attribute ==
    /\ flush_old_attribute
    /\ UNCHANGED <<current_tag_name, last_start_tag, paragraph_walker,
                   in_paragraph, last_paragraph_i, get_paragraphs,
                   current_tag_is_closing, check_anchors>>

push_attribute_name(s) ==
    /\ current_attribute_name' = current_attribute_name \o s
    /\ UNCHANGED <<current_tag_name, current_attribute_value, last_start_tag,
                   emitter>>

push_attribute_value(s) ==
    /\ current_attribute_value' = current_attribute_value \o s
    /\ UNCHANGED <<current_tag_name, current_attribute_name, last_start_tag,
                   emitter>>

\* a query that takes an empty name for a match of an empty last_start_tag
current_is_appropriate_end_tag_token_empty_name ==
    /\ current_tag_is_closing
    /\ current_tag_name = last_start_tag

current_is_appropriate_end_tag_token ==
    /\ current_tag_is_closing
    /\ current_tag_name # <<>>
    /\ current_tag_name = last_start_tag

\* emit_current_comment, emit_current_doctype, emit_error, init_comment,
\* init_doctype, push_comment, push_doctype_*, set_doctype_*,
\* set_force_quirks: empty bodies
noop_callback == UNCHANGED <<buffers, emitter>>

\* an emit_eof that flushes the attribute that was being assembled
emit_eof_flushing == init_attribute

\* emit_eof: an empty body
emit_eof == UNCHANGED <<buffers, emitter>>

----------------------------------------------------------------------------
(* The tokenizer: the order in which html5gum delivers the callbacks.       *)
(* pc is its position: "Data" between tokens, "TagName" after init_*_tag,   *)
(* "AttrName" after init_attribute, "AttrValue" after the first             *)
(* push_attribute_value, "SelfClosing" between set_self_closing and the     *)
(* emit_current_tag that follows it at once, "Done" after emit_eof.         *)

InTag == {"TagName", "AttrName", "AttrValue"}

\* the tag name, and the attribute if one was begun, is delivered in full
\* before the tokenizer moves on
Complete(tags, names, values) ==
    /\ current_tag_name \in tags
    /\ pc \in {"AttrName", "AttrValue"} =>
          /\ current_attribute_name \in names
          /\ current_attribute_value \in values

IsPrefixOfSome(s, names) ==
    \E n \in names : Len(s) <= Len(n) /\ SubSeq(n, 1, Len(s)) = s

\* history of the pushes of one step
track_push ==
    pushed_in_paragraph' = pushed_in_paragraph \o
        [i \in 1..(Len(link_buf') - Len(link_buf)) |-> in_paragraph]

\* history of the arm one flush takes
track_flush ==
    anchor_def_called' =
        (anchor_def_called \/ flush_arm = "extract_anchor_def")

T_set_last_start_tag(opt) ==
    /\ pc = "Data"
    /\ set_last_start_tag(opt)
    /\ started' = (IF opt = None THEN <<>> ELSE opt[1])
    /\ UNCHANGED <<pc, url, ret, paragraph_history, delivered, resets>>

T_emit_string(c) ==
    /\ pc = "Data"
    /\ emit_string(c)
    /\ UNCHANGED <<pc, url, ret, history>>

T_init_start_tag ==
    /\ pc = "Data"
    /\ init_start_tag
    /\ pc' = "TagName"
    /\ UNCHANGED <<url, ret, history>>

T_init_end_tag ==
    /\ pc = "Data"
    /\ init_end_tag
    /\ pc' = "TagName"
    /\ UNCHANGED <<url, ret, history>>

T_push_tag_name(s) ==
    /\ pc = "TagName"
    /\ push_tag_name(s)
    /\ UNCHANGED <<pc, url, ret, history>>

T_init_attribute ==
    /\ pc \in InTag
    /\ init_attribute
    /\ pc' = "AttrName"
    /\ track_push
    /\ track_flush
    /\ delivered' = <<<<>>, <<>>>>
    /\ UNCHANGED <<url, ret, range_start, open_at, plain_open_seen, started,
                   resets>>

T_push_attribute_name(s) ==
    /\ pc = "AttrName"
    /\ push_attribute_name(s)
    /\ delivered' = <<delivered[1] \o s, delivered[2]>>
    /\ UNCHANGED <<pc, url, ret, paragraph_history, started, resets>>

\* a value follows a name: the tokenizer pushes the first byte of an
\* attribute's name right after init_attribute
T_push_attribute_value(s) ==
    /\ pc \in {"AttrName", "AttrValue"}
    /\ current_attribute_name # <<>>
    /\ push_attribute_value(s)
    /\ pc' = "AttrValue"
    /\ delivered' = <<delivered[1], delivered[2] \o s>>
    /\ UNCHANGED <<url, ret, paragraph_history, started, resets>>

T_set_self_closing ==
    /\ pc \in InTag
    /\ set_self_closing
    /\ pc' = "SelfClosing"
    /\ UNCHANGED <<url, ret, history>>

T_emit_current_tag ==
    /\ pc \in InTag \cup {"SelfClosing"}
    /\ emit_current_tag
    /\ pc' = "Data"
    /\ track_push
    /\ track_flush
    /\ range_start' =
         IF ~is_paragraph_tag(current_tag_name) THEN range_start
         ELSE IF current_tag_is_closing THEN -1
         ELSE IF range_start = -1 THEN Len(link_buf')
         ELSE range_start
    /\ open_at' =
         IF ~is_paragraph_tag(current_tag_name) THEN open_at
         ELSE IF current_tag_is_closing THEN -1
         ELSE Len(link_buf')
    /\ plain_open_seen' =
         (plain_open_seen \/ (/\ is_paragraph_tag(current_tag_name)
                              /\ ~current_tag_is_closing
                              /\ pc # "SelfClosing"))
    /\ delivered' = <<<<>>, <<>>>>
    /\ started' = (IF current_tag_is_closing THEN started
                   ELSE current_tag_name)
    /\ UNCHANGED <<url, ret, resets>>

\* a comment, doctype or error callback
T_noop_callback ==
    /\ pc \in InTag \cup {"Data"}
    /\ noop_callback
    /\ UNCHANGED <<pc, url, ret, history>>

\* emit_eof, also in the middle of a tag
T_emit_eof ==
    /\ pc \in InTag \cup {"Data"}
    /\ emit_eof
    /\ pc' = "Done"
    /\ UNCHANGED <<url, ret, history>>

\* the tokenizer asks, after the bytes of an end tag's name, whether the end
\* tag closes the raw text it is in; ret takes the answer
T_current_is_appropriate_end_tag_token ==
    /\ pc = "TagName"
    /\ current_tag_is_closing
    /\ current_tag_name # <<>>
    /\ ret' = Some(current_is_appropriate_end_tag_token)
    /\ UNCHANGED <<buffers, emitter, pc, url, history>>

----------------------------------------------------------------------------
(* Spec: one document, tokenized into the tags, attributes and text below *)

\* <li> and <a>; the tokenizer may deliver "li", and the attribute name
\* "id", in one push or in two
DocTagNames == {<<"l","i">>, S_a}
TagChunks == {<<"l">>, <<"i">>, <<"l","i">>, S_a}
DocAttrNames == {S_href, S_id}
AttrNameChunks == {S_href, S_id, <<"i">>, <<"d">>}
DocAttrValues == {<<"x">>}
AttrValueChunks == {<<"x">>}
TextChunks == {<<"t">>}
LastStartTags == {None, Some(<<"l","i">>)}
DocComplete == Complete(DocTagNames, DocAttrNames, DocAttrValues)

\* HyperlinkEmitter as the driver constructs it over ParserBuffers::default()
InitEmitter ==
    /\ current_tag_name = <<>>
    /\ current_attribute_name = <<>>
    /\ current_attribute_value = <<>>
    /\ last_start_tag = <<>>
    /\ paragraph_walker = walker_new
    /\ link_buf = <<>>
    /\ in_paragraph = FALSE
    /\ last_paragraph_i = 0
    /\ current_tag_is_closing = FALSE
    /\ pushed_in_paragraph = <<>>
    /\ range_start = -1
    /\ open_at = -1
    /\ plain_open_seen = FALSE
    /\ anchor_def_called = FALSE
    /\ delivered = <<<<>>, <<>>>>
    /\ started = <<>>
    /\ resets = <<>>

Init ==
    /\ InitEmitter
    /\ get_paragraphs \in BOOLEAN
    /\ check_anchors \in BOOLEAN
    /\ pc = "Data"
    /\ url = <<>>
    /\ ret = None

\* the walker is fed only while the text of the paragraph fits MaxText
TextFits(c) ==
    (get_paragraphs /\ in_paragraph) => Len(paragraph_walker) + Len(c) <= MaxText

\* the flush pushes only while link_buf fits MaxLinks
LinksFit == Len(flush_match(link_buf)) <= MaxLinks

Next ==
    \/ \E opt \in LastStartTags : T_set_last_start_tag(opt)
    \/ \E c \in TextChunks : TextFits(c) /\ T_emit_string(c)
    \/ T_init_start_tag
    \/ T_init_end_tag
    \/ \E s \in TagChunks :
          /\ IsPrefixOfSome(current_tag_name \o s, DocTagNames)
          /\ T_push_tag_name(s)
    \/ DocComplete /\ LinksFit /\ T_init_attribute
    \/ \E s \in AttrNameChunks :
          /\ IsPrefixOfSome(current_attribute_name \o s, DocAttrNames)
          /\ T_push_attribute_name(s)
    \/ \E s \in AttrValueChunks :
          /\ current_attribute_name \in DocAttrNames
          /\ IsPrefixOfSome(current_attribute_value \o s, DocAttrValues)
          /\ T_push_attribute_value(s)
    \/ DocComplete /\ T_set_self_closing
    \/ DocComplete /\ LinksFit /\ T_emit_current_tag
    \/ T_noop_callback
    \/ T_emit_eof

Spec == Init /\ [][Next]_vars

----------------------------------------------------------------------------
(* SpecScreen: direct calls of is_bad_schema, as test_is_bad_schema makes   *)

UrlBytes == {"a", "Z", "1", "+", "-", ".", ":", "/", "#"}
Urls == BoundedSeqs(UrlBytes, MaxUrlLen)

InitScreen ==
    /\ InitEmitter
    /\ get_paragraphs = FALSE
    /\ check_anchors = FALSE
    /\ pc = "Data"
    /\ url \in Urls
    /\ ret = None

call_is_bad_schema ==
    /\ ret = None
    /\ ret' = Some(is_bad_schema(url))
    /\ UNCHANGED <<buffers, emitter, pc, url, history>>

NextScreen == call_is_bad_schema

SpecScreen == InitScreen /\ [][NextScreen]_vars

\* the driver abandons the document where the tokenizer stands, or has
\* finished it, and resets the buffers for the next one
T_reset ==
    /\ pc \in InTag \cup {"Data", "Done"}
    /\ reset
    /\ pc' = "Reset"
    /\ resets' = Append(resets, pc)
    /\ delivered' = <<<<>>, <<>>>>
    /\ started' = <<>>
    /\ UNCHANGED <<url, ret, paragraph_history>>

\* the driver makes the emitter of the next document over the buffers it has
\* reset, with an empty link_buf
T_new_emitter ==
    /\ pc = "Reset"
    /\ pc' = "Data"
    /\ paragraph_walker' = walker_new
    /\ link_buf' = <<>>
    /\ in_paragraph' = FALSE
    /\ last_paragraph_i' = 0
    /\ current_tag_is_closing' = FALSE
    /\ get_paragraphs' \in BOOLEAN
    /\ check_anchors' \in BOOLEAN
    /\ pushed_in_paragraph' = <<>>
    /\ range_start' = -1
    /\ open_at' = -1
    /\ plain_open_seen' = FALSE
    /\ anchor_def_called' = FALSE
    /\ UNCHANGED <<buffers, url, ret, delivered, started, resets>>

----------------------------------------------------------------------------
(* SpecEndTag: start tags and end tags without attributes, with the         *)
(* tokenizer's query for the appropriate end tag                            *)

EndTagNames == {<<"l","i">>, S_a, S_script}
EndTagChunks == {<<"l">>, <<"i">>, <<"l","i">>, S_a, S_script}
EndLastStartTags == {None, Some(<<"l","i">>), Some(S_script)}

NextEndTag ==
    \/ \E opt \in EndLastStartTags : T_set_last_start_tag(opt)
    \/ T_init_start_tag
    \/ T_init_end_tag
    \/ \E s \in EndTagChunks :
          /\ IsPrefixOfSome(current_tag_name \o s, EndTagNames)
          /\ T_push_tag_name(s)
    \/ T_current_is_appropriate_end_tag_token
    \/ current_tag_name \in EndTagNames /\ T_emit_current_tag

SpecEndTag == Init /\ [][NextEndTag]_vars

----------------------------------------------------------------------------
(* SpecReset: documents of <a href=x> and <li> tags, each one abandoned at  *)
(* any position of the tokenizer or finished, and followed by a reset of    *)
(* the buffers and a new emitter                                            *)

ResetTagNames == {<<"l","i">>, S_a}
ResetAttrNames == {S_href}
ResetAttrValues == {<<"x">>}
ResetComplete == Complete(ResetTagNames, ResetAttrNames, ResetAttrValues)

NextReset ==
    \/ T_init_start_tag
    \/ T_init_end_tag
    \/ \E s \in ResetTagNames : current_tag_name = <<>> /\ T_push_tag_name(s)
    \/ ResetComplete /\ LinksFit /\ T_init_attribute
    \/ \E s \in ResetAttrNames :
          current_attribute_name = <<>> /\ T_push_attribute_name(s)
    \/ \E s \in ResetAttrValues :
          current_attribute_value = <<>> /\ T_push_attribute_value(s)
    \/ ResetComplete /\ LinksFit /\ T_emit_current_tag
    \/ T_emit_eof
    \/ Len(resets) < MaxResets /\ T_reset
    \/ T_new_emitter

SpecReset == Init /\ [][NextReset]_vars

----------------------------------------------------------------------------
(* SpecFlush: one tag with one pending attribute of any name in the         *)
(* classification table, its value delivered byte by byte, then flushed by  *)
(* init_attribute or emit_current_tag                                       *)

FlushTagNames == {S_link, S_area, S_a, S_img, S_script, S_iframe, S_object,
                  <<"d","i","v">>, <<"p">>}
FlushAttrNames == {S_href, S_name, S_src, S_srcset, S_data, S_id,
                   <<"a","l","t">>}
ValueBytes == {"a", ":", ",", " ", "#"}
\* the attribute values of the tests and scenarios
ExampleValues == {
    <<"a"," ","1","x",","," ","b"," ","2","x",","," ",","," ","c">>,
    <<"m","a","i","l","t","o",":","x","@","y">>,
    <<"/","/","h","/","a">>,
    <<"d","a","t","a",":","i",",","A",",","B">> }

\* a start tag or an end tag is open, an earlier attribute may have been
\* flushed already, and the name of the pending attribute is complete
InitFlush ==
    /\ current_tag_name \in FlushTagNames
    /\ current_attribute_name \in FlushAttrNames
    /\ current_attribute_value = <<>>
    /\ last_start_tag = <<>>
    /\ paragraph_walker = walker_new
    /\ link_buf \in {<<>>, <<UsedLink(<<"e">>)>>}
    /\ in_paragraph = FALSE
    /\ last_paragraph_i = 0
    /\ current_tag_is_closing \in BOOLEAN
    /\ pushed_in_paragraph = [i \in 1..Len(link_buf) |-> FALSE]
    /\ range_start = -1
    /\ open_at = -1
    /\ plain_open_seen = FALSE
    /\ anchor_def_called = FALSE
    /\ delivered = <<current_attribute_name, <<>>>>
    /\ started = <<>>
    /\ resets = <<>>
    /\ get_paragraphs = FALSE
    /\ check_anchors \in BOOLEAN
    /\ pc = "AttrName"
    /\ url = <<>>
    /\ ret = None

NextFlush ==
    \/ \E b \in ValueBytes :
          /\ Len(current_attribute_value) < MaxValLen
          /\ T_push_attribute_value(<<b>>)
    \/ \E v \in ExampleValues :
          /\ current_attribute_value = <<>>
          /\ T_push_attribute_value(v)
    \/ T_init_attribute
    \/ T_emit_current_tag

SpecFlush == InitFlush /\ [][NextFlush]_vars

----------------------------------------------------------------------------
(* Claims about the scheme screen and the classification of attributes *)

SchemeBytes == Lower \cup Upper \cup Digit \cup {"+", "-", "."}

\* u is "//..." or ALPHA *(ALPHA | DIGIT | "+" | "-" | ".") ":" ...
HasSchemeForm(u) ==
    \/ Len(u) >= 2 /\ u[1] = "/" /\ u[2] = "/"
    \/ \E k \in 2..Len(u) :
          /\ u[k] = ":"
          /\ u[1] \in Lower \cup Upper
          /\ \A j \in 2..(k - 1) : u[j] \in SchemeBytes

\* C6: is_bad_schema(bytes) is true exactly when bytes starts with "//" or
\* has the form of a scheme followed by ":"; so it is false for the empty
\* input, for a first byte that is no letter, for a byte outside the scheme
\* alphabet before any ":", and for input that ends before a ":".
C6_SchemeScreen == ret # None => ret[1] = HasSchemeForm(url)

\* is_bad_schema has answered true for a scheme with a digit and a "+"
C6_Witness ==
    /\ ret = Some(TRUE)
    /\ url = <<"a", "1", "+", ":">>

\* a flush_old_attribute is running: both callers of it
Flushing == T_init_attribute \/ T_emit_current_tag

\* the (tag, attribute) pairs of the table's extract_used_link rows
UsedLinkRow(tag, attr) ==
    \/ tag \in {S_link, S_area, S_a} /\ attr = S_href
    \/ tag \in {S_img, S_script, S_iframe} /\ attr = S_src
    \/ tag = S_object /\ attr = S_data

AnchorDefRow(tag, attr) ==
    \/ tag = S_a /\ attr = S_name
    \/ attr = S_id

\* the records the table's row for the pending attribute appends
TableRecords ==
    LET tag == current_tag_name
        attr == current_attribute_name
    IN  IF UsedLinkRow(tag, attr) THEN extract_used_link(<<>>)
        ELSE IF tag = S_img /\ attr = S_srcset THEN extract_used_link_srcset(<<>>)
        ELSE IF AnchorDefRow(tag, attr) THEN extract_anchor_def(<<>>)
        ELSE <<>>

\* C4: a flush of a (tag, attribute) pair appends exactly the records of the
\* one row of the classification table the pair belongs to, and nothing for
\* a pair in no row (the empty attribute name included).
C4_Classification ==
    [][Flushing => link_buf' = link_buf \o TableRecords]_vars

\* <object data=...> after an earlier record: init_attribute has flushed the
\* data attribute into a second Uses record
C4_Witness ==
    /\ pc = "AttrName"
    /\ current_tag_name = S_object
    /\ current_attribute_name = <<>>
    /\ Len(link_buf) = 2
    /\ link_buf[2].kind = "Uses"

\* C7: extract_used_link appends nothing when is_bad_schema holds of the
\* trimmed value, and otherwise exactly one Uses record with the joined
\* trimmed value as href, the document's path and no paragraph.
C7_UsedLinkScreen ==
    [][(Flushing /\ UsedLinkRow(current_tag_name, current_attribute_name)) =>
        LET value == try_normalize_href_value(current_attribute_value)
        IN  IF is_bad_schema(value)
            THEN link_buf' = link_buf
            ELSE link_buf' = Append(link_buf,
                     [kind |-> "Uses",
                      href |-> join(check_anchors, value),
                      path |-> document.path,
                      paragraph |-> None])]_vars

\* <area href=" a#"> under check_anchors: one Uses record for "a#"
C7_Witness ==
    /\ pc = "AttrName"
    /\ current_tag_name = S_area
    /\ current_attribute_name = <<>>
    /\ check_anchors
    /\ link_buf = <<UsedLink(<<"a", "#">>)>>

\* the positions of the separators of v, with both ends
Cuts(v) == {0, Len(v) + 1} \cup {i \in 1..Len(v) : v[i] = ","}

\* the candidate of v that starts after the cut at position c
CandidateAfter(v, c) ==
    LET next == CHOOSE d \in Cuts(v) :
                    d > c /\ \A e \in Cuts(v) : e > c => d <= e
    IN  SubSeq(v, c + 1, next - 1)

\* the first whitespace-delimited token of candidate, <<>> if it has none
FirstToken(candidate) ==
    LET starts == {i \in 1..Len(candidate) : ~IsWhitespace(candidate[i])}
    IN  IF starts = {} THEN <<>>
        ELSE LET a == CHOOSE i \in starts : \A j \in starts : i <= j
                 ends == {j \in a..Len(candidate) :
                            \A k \in a..j : ~IsWhitespace(candidate[k])}
                 b == CHOOSE j \in ends : \A k \in ends : k <= j
             IN  SubSeq(candidate, a, b)

\* the cuts of v in increasing order
RECURSIVE SortedCuts(_, _)
SortedCuts(v, from) ==
    IF \E c \in Cuts(v) : c >= from /\ c <= Len(v)
    THEN LET c == CHOOSE d \in Cuts(v) :
                    /\ d >= from /\ d <= Len(v)
                    /\ \A e \in Cuts(v) : (e >= from /\ e <= Len(v)) => d <= e
         IN  <<c>> \o SortedCuts(v, c + 1)
    ELSE <<>>

\* the URLs the srcset split law gives for the attribute value raw
SrcsetUrls(raw) ==
    LET v == try_normalize_href_value(raw)
        cuts == SortedCuts(v, 0)
        tokens == [k \in 1..Len(cuts) |-> FirstToken(CandidateAfter(v, cuts[k]))]
    IN  SelectSeq(tokens, LAMBDA t : t # <<>> /\ ~is_bad_schema(t))

\* C8: for (img, srcset) the flush appends, after the records already in
\* link_buf, one Uses record per comma-separated candidate that has a first
\* whitespace-delimited token passing the scheme screen, with that token as
\* the URL, in candidate order; empty candidates contribute nothing.
C8_SrcsetSplit ==
    [][(Flushing /\ current_tag_name = S_img
                 /\ current_attribute_name = S_srcset) =>
        LET urls == SrcsetUrls(current_attribute_value)
        IN  link_buf' = link_buf \o
              [k \in 1..Len(urls) |->
                 [kind |-> "Uses",
                  href |-> join(check_anchors, urls[k]),
                  path |-> document.path,
                  paragraph |-> None]]]_vars

\* srcset="a 1x, b 2x, , c" after an earlier record: a, b and c follow it
C8_Witness ==
    /\ pc = "AttrName"
    /\ current_tag_name = S_img
    /\ current_attribute_name = <<>>
    /\ link_buf = <<UsedLink(<<"e">>), UsedLink(<<"a">>),
                    UsedLink(<<"b">>), UsedLink(<<"c">>)>>

----------------------------------------------------------------------------
(* Claims about paragraphs *)

IsUses(buf, i) == buf[i].kind = "Uses"

\* the step emits a closing paragraph-class tag
ClosingParagraphTag ==
    /\ T_emit_current_tag
    /\ current_tag_is_closing
    /\ is_paragraph_tag(current_tag_name)

\* C1: when a closing paragraph-class tag is emitted and the last
\* paragraph-class tag before it was an opening one, every Uses record
\* appended since that opening has the fingerprint finish_paragraph returns at
\* the close, and every record below the index taken at the opening is as it
\* was.
C1_BackPatch ==
    [][(ClosingParagraphTag /\ open_at # -1) =>
        /\ \A i \in (open_at + 1)..Len(link_buf') :
              IsUses(link_buf', i) =>
                 link_buf'[i].paragraph =
                    finish_paragraph(paragraph_walker).paragraph
        /\ \A i \in 1..open_at : link_buf'[i] = link_buf[i]]_vars

\* C2: when a closing paragraph-class tag is emitted, every Uses record
\* appended since the first opening paragraph-class tag that followed the
\* previous closing one has the fingerprint finish_paragraph returns at the
\* close, nested and repeated opening tags included.
C2_RangeStamped ==
    [][(ClosingParagraphTag /\ range_start # -1) =>
        \A i \in (range_start + 1)..Len(link_buf') :
           IsUses(link_buf', i) =>
              link_buf'[i].paragraph =
                 finish_paragraph(paragraph_walker).paragraph]_vars

\* C3: a Uses record appended while in_paragraph is false has no paragraph,
\* whatever callbacks followed.
C3_StrayLinkUnstamped ==
    \A i \in 1..Len(link_buf) :
       (IsUses(link_buf, i) /\ ~pushed_in_paragraph[i]) =>
          link_buf[i].paragraph = None

\* a stray link, then a paragraph whose link was stamped at its close
C3_Witness ==
    /\ Len(link_buf) = 2
    /\ IsUses(link_buf, 1) /\ ~pushed_in_paragraph[1]
    /\ IsUses(link_buf, 2) /\ link_buf[2].paragraph # None

\* C5: with check_anchors false, link_buf holds no Defines record.
C5_NoDefinesWithoutAnchors ==
    ~check_anchors =>
       \A i \in 1..Len(link_buf) : link_buf[i].kind # "Defines"

\* extract_anchor_def has run under check_anchors = false, beside a Uses
C5_Witness ==
    /\ ~check_anchors
    /\ anchor_def_called
    /\ Len(link_buf) > 0

\* C9: after set_self_closing and emit_current_tag have run for a
\* paragraph-class start tag, in_paragraph is false.
C9_SelfClosingOpensNothing ==
    [][(/\ pc = "SelfClosing"
        /\ T_emit_current_tag
        /\ ~current_tag_is_closing
        /\ is_paragraph_tag(current_tag_name)) => ~in_paragraph']_vars

\* C10: as long as no paragraph-class start tag was emitted without
\* set_self_closing, every Uses record has no paragraph.
C10_SelfClosingStampsNothing ==
    ~plain_open_seen =>
       \A i \in 1..Len(link_buf) :
          IsUses(link_buf, i) => link_buf[i].paragraph = None

----------------------------------------------------------------------------
(* Claims about the index and the records *)

\* C13: last_paragraph_i never exceeds the length of link_buf, so the slice
\* link_buf[last_paragraph_i..] taken at a closing paragraph-class tag is in
\* bounds in every reachable state.
C13_IndexInBounds == last_paragraph_i <= Len(link_buf)

\* a closing paragraph-class tag has taken the slice from an index above zero
\* and stamped the record in it
C13_Witness ==
    /\ pc = "Data"
    /\ Len(link_buf) = 2
    /\ last_paragraph_i = 2
    /\ IsUses(link_buf, 1)
    /\ link_buf[1].paragraph = None
    /\ IsUses(link_buf, 2)
    /\ link_buf[2].paragraph # None

\* C15: a fingerprint is never re-applied. last_paragraph_i never decreases;
\* a closing paragraph-class tag leaves last_paragraph_i at the length of
\* link_buf, and no step changes a record at or below last_paragraph_i, so
\* no later callback changes the paragraph field of a record that was in
\* link_buf at a close, and a Uses record is stamped by at most one closing
\* tag.
C15_NoRestamp ==
    [][/\ last_paragraph_i' >= last_paragraph_i
       /\ ClosingParagraphTag => last_paragraph_i' = Len(link_buf')
       /\ \A i \in 1..last_paragraph_i : link_buf'[i] = link_buf[i]]_vars

\* a second paragraph, one without text, has been closed after a first one
\* whose link was stamped at the earlier close: the first link keeps its
\* fingerprint
C15_Witness ==
    /\ pc = "Data"
    /\ current_tag_is_closing
    /\ ~in_paragraph
    /\ Len(link_buf) = 2
    /\ last_paragraph_i = 2
    /\ pushed_in_paragraph = <<TRUE, TRUE>>
    /\ IsUses(link_buf, 1)
    /\ IsUses(link_buf, 2)
    /\ link_buf[1].paragraph # None
    /\ link_buf[2].paragraph = None

\* C16: link_buf is append-only apart from back-patching. In every step its
\* length does not decrease, and each record already in it either stays as
\* it is or, when the step emits a closing paragraph-class tag while
\* in_paragraph is true, is a Uses record at an index of
\* link_buf[last_paragraph_i..] that changes in its paragraph field only; a
\* Defines record never changes.
C16_AppendOnly ==
    [][/\ Len(link_buf') >= Len(link_buf)
       /\ \A i \in 1..Len(link_buf) :
            \/ link_buf'[i] = link_buf[i]
            \/ /\ ClosingParagraphTag
               /\ in_paragraph
               /\ i > last_paragraph_i
               /\ IsUses(link_buf, i)
               /\ link_buf'[i] =
                    [link_buf[i] EXCEPT !.paragraph = link_buf'[i].paragraph]]_vars

\* a closing tag has back-patched the link of its paragraph and left the
\* Defines record of the same paragraph alone
C16_Witness ==
    /\ pc = "Data"
    /\ Len(link_buf) = 2
    /\ ~IsUses(link_buf, 1)
    /\ IsUses(link_buf, 2)
    /\ link_buf[2].paragraph # None
    /\ pushed_in_paragraph = <<TRUE, TRUE>>
    /\ ~in_paragraph

----------------------------------------------------------------------------
(* Claims about text and the callbacks without effect *)

\* C17: emit_string feeds its bytes to the walker exactly when get_paragraphs
\* and in_paragraph are both true and drops them otherwise, and changes no
\* buffer, flag, index or link record; with get_paragraphs false the walker
\* never holds text.
C17_TextGate ==
    /\ [](~get_paragraphs => paragraph_walker = walker_new)
    /\ [][\A c \in TextChunks :
            T_emit_string(c) =>
              /\ paragraph_walker' =
                   IF get_paragraphs /\ in_paragraph
                   THEN walker_update(paragraph_walker, c)
                   ELSE paragraph_walker
              /\ UNCHANGED <<buffers, link_buf, in_paragraph,
                             last_paragraph_i, get_paragraphs,
                             current_tag_is_closing, check_anchors>>]_vars

\* text has been fed inside a paragraph
C17_Witness ==
    /\ pc = "Data"
    /\ get_paragraphs
    /\ in_paragraph
    /\ paragraph_walker = <<"t">>

\* C19: the doctype, comment, error and end-of-input callbacks leave the
\* whole emitter state as it was; emit_eof flushes no pending attribute, so a
\* tag cut off by the end of the input appends no record.
C19_NoEffect ==
    [][(T_noop_callback \/ T_emit_eof) =>
          UNCHANGED <<current_tag_name, current_attribute_name,
                      current_attribute_value, last_start_tag,
                      paragraph_walker, link_buf, in_paragraph,
                      last_paragraph_i, get_paragraphs,
                      current_tag_is_closing, check_anchors>>]_vars

\* the input ended inside <a href=x: the attribute is still pending and no
\* record was appended for it
C19_Witness ==
    /\ pc = "Done"
    /\ current_tag_name = S_a
    /\ current_attribute_name = S_href
    /\ current_attribute_value = <<"x">>
    /\ link_buf = <<>>

----------------------------------------------------------------------------
(* Claims about attributes on any tag *)

\* the value begins with data: and has a comma in it
IsDataUrlWithCommas(v) ==
    /\ starts_with(v, <<"d","a","t","a",":">>)
    /\ \E i \in 1..Len(v) : v[i] = ","

\* C18: a flush of (img, srcset) whose value holds a data: URL with commas in
\* it appends no record: every candidate of the split at the commas is
\* rejected by the scheme screen.
C18_DataUrlSrcset ==
    [][(/\ Flushing
        /\ current_tag_name = S_img
        /\ current_attribute_name = S_srcset
        /\ IsDataUrlWithCommas(current_attribute_value))
          => link_buf' = link_buf]_vars

\* C20: the classification of an attribute does not depend on
\* current_tag_is_closing: a flush on an end tag appends the records that the
\* table gives for the tag name, the attribute name and the value, the same
\* as a flush on a start tag of that name.
C20_EndTagAttributes ==
    [][(Flushing /\ current_tag_is_closing) =>
          /\ link_buf' = link_buf \o TableRecords
          /\ current_tag_is_closing']_vars

\* the href of an end tag </a href=a> has been flushed into a Uses record
C20_Witness ==
    /\ current_tag_is_closing
    /\ pc = "AttrName"
    /\ current_tag_name = S_a
    /\ current_attribute_name = <<>>
    /\ link_buf = <<UsedLink(<<"a">>)>>

\* C14: within a tag each attribute is classified once, with its complete
\* name and value, at the next init_attribute or at emit_current_tag and not
\* before. In every state the attribute buffers hold exactly what the
\* tokenizer has pushed for the attribute it is delivering; link_buf changes
\* in no step but a flush; the flush appends as many records as the table
\* gives for that name and value and leaves both attribute buffers empty, and
\* emit_current_tag leaves current_tag_name empty too.
C14_FlushOnce ==
    /\ [](/\ current_attribute_name = delivered[1]
          /\ current_attribute_value = delivered[2])
    /\ [][/\ link_buf' # link_buf => Flushing
          /\ Flushing =>
               /\ Len(link_buf') = Len(link_buf) + Len(TableRecords)
               /\ current_attribute_name' = <<>>
               /\ current_attribute_value' = <<>>
          /\ T_emit_current_tag => current_tag_name' = <<>>]_vars

\* <a href=x id=x: the href was classified at the init_attribute of id, and
\* the id is complete in the buffers and not yet classified
C14_Witness ==
    /\ pc = "AttrValue"
    /\ delivered = <<S_id, <<"x">>>>
    /\ check_anchors
    /\ current_tag_name = S_a
    /\ current_attribute_name = S_id
    /\ current_attribute_value = <<"x">>
    /\ link_buf = <<UsedLink(<<"x">>)>>

----------------------------------------------------------------------------
(* Claims about the buffers between tags and between documents *)

\* C12: current_is_appropriate_end_tag_token is true exactly when the tag
\* being assembled is an end tag, its name is not empty and its name equals
\* last_start_tag; last_start_tag is the name of the start tag emitted last,
\* paragraph-class or not, or the value given to set_last_start_tag last,
\* whichever came later; emitting an end tag leaves last_start_tag as it was,
\* and the query changes no state.
C12_AppropriateEndTag ==
    /\ [](last_start_tag = started)
    /\ [](current_is_appropriate_end_tag_token <=>
            (/\ current_tag_is_closing
             /\ current_tag_name # <<>>
             /\ current_tag_name = started))
    /\ [][/\ T_current_is_appropriate_end_tag_token =>
               /\ ret' = Some(/\ current_tag_is_closing
                              /\ current_tag_name # <<>>
                              /\ current_tag_name = started)
               /\ UNCHANGED <<buffers, emitter>>
          /\ (T_emit_current_tag /\ current_tag_is_closing) =>
               last_start_tag' = last_start_tag]_vars

\* the query has answered true for </a after a start tag <a> was emitted
C12_Witness ==
    /\ pc = "TagName"
    /\ current_tag_is_closing
    /\ current_tag_name = S_a
    /\ last_start_tag = S_a
    /\ ret = Some(TRUE)

\* C11: after ParserBuffers.reset(), whatever callbacks ran before it, the
\* emitter of the next document starts from the state in which an emitter
\* over freshly default-constructed buffers starts: the four buffers are
\* empty and the emitter's fields are those of a first document, so the same
\* callbacks append the same records with the same paragraph values.
C11_ResetAsFresh ==
    [][T_new_emitter =>
          /\ current_tag_name' = <<>>
          /\ current_attribute_name' = <<>>
          /\ current_attribute_value' = <<>>
          /\ last_start_tag' = <<>>
          /\ paragraph_walker' = walker_new
          /\ link_buf' = <<>>
          /\ ~in_paragraph'
          /\ last_paragraph_i' = 0
          /\ ~current_tag_is_closing']_vars

\* a document was abandoned inside <a href=x, the one attribute value of
\* these documents; in the next one <li> was
\* emitted and the init_attribute of <a has flushed nothing
C11_Witness ==
    /\ resets = <<"AttrValue">>
    /\ pc = "AttrName"
    /\ current_tag_name = S_a
    /\ current_attribute_name = <<>>
    /\ last_start_tag = <<"l","i">>
    /\ in_paragraph
    /\ link_buf = <<>>

====
